---- MODULE Spec2Model ----
(***************************************************************************)
(* LoopFeatureExtractor (src/LoopFeatureExtractor.cpp): an LLVM module     *)
(* pass that writes one CSV row of features per loop to loop_features.csv  *)
(* and tags the rows with a run identifier kept in code_id.txt.            *)
(*                                                                         *)
(* The model has three layers:                                             *)
(*   - the IR a pass sees (functions, blocks, instructions, use lists,     *)
(*     LoopInfo's loop forest, ScalarEvolution's backedge-taken counts);   *)
(*   - analyzeLoop / run as operators over that IR;                        *)
(*   - the processes that load the plugin: statics, pass instances, the    *)
(*     two files they share.                                               *)
(***************************************************************************)
EXTENDS Integers, Sequences, FiniteSets, TLC

\* ------------------------------------------------------------------ bounds
\* Largest number of loops in one generated function.
MaxLoops == 3
\* Largest number of pass instances alive at once in one process.
MaxInstances == 2
\* Largest number of run() calls in one process.
MaxRuns == 2

\* ------------------------------------------------------------ small helpers
RECURSIVE SumSeq(_)
SumSeq(s) == IF s = <<>> THEN 0 ELSE Head(s) + SumSeq(Tail(s))

RECURSIVE Concat(_)
Concat(ss) == IF ss = <<>> THEN <<>> ELSE Head(ss) \o Concat(Tail(ss))

RECURSIVE SetToSeq(_)
SetToSeq(S) ==
  IF S = {} THEN <<>>
  ELSE LET x == CHOOSE y \in S : \A z \in S : y <= z
       IN  <<x>> \o SetToSeq(S \ {x})

Range(s) == {s[i] : i \in 1..Len(s)}

B2I(b) == IF b THEN 1 ELSE 0

\* ------------------------------------------------- fixed-width integers
\* TLC's integers are 32 bits wide, so a 64-bit value is four 16-bit limbs,
\* most significant first.
LimbBase == 2 ^ 16
U64Limbs == 64 \div 16

U64Zero == [i \in 1..U64Limbs |-> 0]
U64Max == [i \in 1..U64Limbs |-> LimbBase - 1]

\* l + 1 over n limbs, as <<carry out, limbs>>.
RECURSIVE LimbsInc(_)
LimbsInc(l) ==
  IF l = <<>> THEN <<1, <<>>>>
  ELSE LET n == Len(l)
           lo == l[n]
       IN  IF lo + 1 < LimbBase
           THEN <<0, SubSeq(l, 1, n - 1) \o <<lo + 1>>>>
           ELSE LET hi == LimbsInc(SubSeq(l, 1, n - 1))
                IN  <<hi[1], hi[2] \o <<0>>>>

\* uint64_t + 1: the carry out of bit 63 is dropped.
U64AddOne(l) == LimbsInc(l)[2]

\* Two's complement negation of a 64-bit pattern: ~l + 1.
U64Neg(l) == U64AddOne([i \in 1..U64Limbs |-> LimbBase - 1 - l[i]])

\* The conversion uint64_t -> int64_t and what operator<< prints for it: a
\* sign and a magnitude.
Int64Of(l) ==
  IF l[1] >= LimbBase \div 2
  THEN [neg |-> TRUE, mag |-> U64Neg(l)]
  ELSE [neg |-> FALSE, mag |-> l]

\* A small natural number as a 64-bit pattern.
U64Of(n) ==
  [i \in 1..U64Limbs |->
     IF i = U64Limbs THEN n % LimbBase
     ELSE IF i = U64Limbs - 1 THEN n \div LimbBase
     ELSE 0]

\* --------------------------------------------------------------- the IR
\* An instruction is named by its block and its position in the block; an
\* operand that is no instruction (a constant, an argument, a block, a
\* callee) is NoInst.
NoInst == <<0, 0>>

Inst(op, cond, operands) == [op |-> op, cond |-> cond, operands |-> operands]

\* What ScalarEvolution::getBackedgeTakenCount can hand back: a SCEVConstant,
\* or a SCEV that is none (SCEVCouldNotCompute, a symbolic expression).
ConstBTC(v) == [kind |-> "const", value |-> v]
NonConstBTC == [kind |-> "nonconst", value |-> U64Zero]

BTCs ==
  << ConstBTC(U64Of(9)),
     NonConstBTC,
     ConstBTC(U64Zero),
     ConstBTC(U64Of(LimbBase - 1)),
     ConstBTC([U64Max EXCEPT ![1] = LimbBase \div 2 - 1, ![U64Limbs] = LimbBase - 2]),
     ConstBTC([U64Max EXCEPT ![1] = LimbBase \div 2 - 1]),
     ConstBTC(U64Max) >>

\* Backedge-taken counts a loop over a 32-bit induction variable can have.
SmallBTCs == SubSeq(BTCs, 1, 4)

Flavors == {"plain", "mem", "call"}

\* A loop forest over loops 1..n is a parent vector: par[i] is the loop
\* that directly contains loop i, or 0 for a top-level loop.
Shapes(n) == {par \in [1..n -> 0..n] : \A i \in 1..n : par[i] < i}

Children(par, i) == SetToSeq({j \in 1..Len(par) : par[j] = i})

RECURSIVE Encloses(_, _, _)
Encloses(par, i, j) ==
  IF j = i THEN TRUE
  ELSE IF j = 0 THEN FALSE
  ELSE Encloses(par, i, par[j])

EntryBlock == 0
HeaderOf(i) == 2 * i - 1
LatchOf(i) == 2 * i
ExitOf(par) == 2 * Len(par) + 1
BlockIds(par) == 0..ExitOf(par)
PhiOf(i) == <<HeaderOf(i), 1>>

\* Where control goes when loop i is left.
AfterLoop(par, i) ==
  LET sibs == Children(par, par[i])
      pos == CHOOSE q \in 1..Len(sibs) : sibs[q] = i
  IN  IF pos < Len(sibs) THEN HeaderOf(sibs[pos + 1])
      ELSE IF par[i] = 0 THEN ExitOf(par)
      ELSE LatchOf(par[i])

\* The "call" flavor leaves the function from the latch as well, to the
\* block after the last loop.
BlockSuccs(par, flavor, b) ==
  IF b = EntryBlock
  THEN LET top == Children(par, 0)
       IN  IF top = <<>> THEN <<ExitOf(par)>> ELSE <<HeaderOf(top[1])>>
  ELSE IF b = ExitOf(par) THEN <<>>
  ELSE IF b % 2 = 1
  THEN LET i == (b + 1) \div 2
           kids == Children(par, i)
       IN  << IF kids = <<>> THEN LatchOf(i) ELSE HeaderOf(kids[1]),
              AfterLoop(par, i) >>
  ELSE IF flavor = "call" THEN <<HeaderOf(b \div 2), ExitOf(par)>>
  ELSE <<HeaderOf(b \div 2)>>

BlockPreds(par, flavor, b) ==
  SetToSeq({a \in BlockIds(par) : b \in Range(BlockSuccs(par, flavor, a))})

FlavorInsts(flavor, i) ==
  CASE flavor = "mem" ->
         << Inst("load", FALSE, <<PhiOf(i)>>),
            Inst("fadd", FALSE, << <<LatchOf(i), 2>>, <<LatchOf(i), 2>> >>),
            Inst("store", FALSE, << <<LatchOf(i), 3>>, PhiOf(i) >>) >>
    [] flavor = "call" ->
         << Inst("call", FALSE, <<PhiOf(i), PhiOf(i), NoInst>>),
            Inst("fdiv", FALSE, << <<LatchOf(i), 2>>, NoInst >>) >>
    [] OTHER -> <<>>

BlockInsts(par, flavor, b) ==
  IF b = EntryBlock THEN << Inst("br", FALSE, <<NoInst>>) >>
  ELSE IF b = ExitOf(par)
  THEN (IF Len(par) = 0 THEN <<>> ELSE << Inst("other", FALSE, <<PhiOf(1)>>) >>)
       \o << IF flavor = "call" THEN Inst("unreachable", FALSE, <<>>)
                                ELSE Inst("ret", FALSE, <<>>) >>
  ELSE IF b % 2 = 1
  THEN LET i == (b + 1) \div 2
       IN  << Inst("phi", FALSE, <<NoInst, <<LatchOf(i), 1>> >>),
              Inst("other", FALSE, <<PhiOf(i), NoInst>>),
              Inst("br", TRUE, << <<b, 2>>, NoInst, NoInst >>) >>
  ELSE LET i == b \div 2
           kids == Children(par, i)
       IN  << Inst("other", FALSE, <<PhiOf(i), NoInst>>) >>
           \o FlavorInsts(flavor, i)
           \o (IF kids = <<>> THEN <<>>
               ELSE << Inst("other", FALSE, <<PhiOf(kids[1]), PhiOf(i)>>) >>)
           \o << IF flavor = "call"
                 THEN Inst("br", TRUE, << <<b, 2>>, NoInst, NoInst >>)
                 ELSE Inst("br", FALSE, <<NoInst>>) >>

BlockName(par, b) ==
  IF b = EntryBlock THEN <<"entry", 0>>
  ELSE IF b = ExitOf(par) THEN <<"for.end", 0>>
  ELSE IF b % 2 = 1 THEN <<"for.cond", (b + 1) \div 2>>
  ELSE <<"for.inc", b \div 2>>

\* A function with a body: its blocks, what LoopInfo finds in it and what
\* ScalarEvolution says of each loop. rot picks the loops' counts from pal.
MkFunction(name, par, flavor, pal, rot) ==
  [ name |-> name,
    isDeclaration |-> FALSE,
    blocks |-> [b \in BlockIds(par) |->
                  [ name |-> BlockName(par, b),
                    insts |-> BlockInsts(par, flavor, b),
                    preds |-> BlockPreds(par, flavor, b),
                    succs |-> BlockSuccs(par, flavor, b) ]],
    loops |-> [i \in 1..Len(par) |->
                 [ header |-> HeaderOf(i),
                   blocks |-> SetToSeq(UNION {{HeaderOf(j), LatchOf(j)} :
                                 j \in {j \in 1..Len(par) : Encloses(par, i, j)}}),
                   subLoops |-> Children(par, i),
                   parentLoop |-> par[i],
                   btc |-> pal[((rot + i) % Len(pal)) + 1] ]],
    top |-> Children(par, 0) ]

MkDeclaration(name) ==
  [ name |-> name, isDeclaration |-> TRUE,
    blocks |-> <<>>, loops |-> <<>>, top |-> <<>> ]

\* A module: a declaration, a function with any forest of up to MaxLoops
\* loops, and a function with one loop or none.
MkUnit(par1, par2, flavor, pal, rot) ==
  << MkDeclaration("ext"),
     MkFunction("f", par1, flavor, pal, rot),
     MkFunction("g", par2, flavor, pal, rot + Len(par1)) >>

AllShapes == UNION {Shapes(n) : n \in 0..MaxLoops}

AllUnits ==
  { MkUnit(par1, par2, flavor, BTCs, rot) :
      par1 \in AllShapes, par2 \in Shapes(0) \cup Shapes(1),
      flavor \in Flavors, rot \in 0..(Len(BTCs) - 1) }

\* ------------------------------------------------------------ analyzeLoop
\* The instructions of the loop's blocks in the order the two nested for
\* loops visit them, each with its name.
LoopInsts(F, l) ==
  LET bs == F.loops[l].blocks
  IN  Concat([k \in 1..Len(bs) |->
                [j \in 1..Len(F.blocks[bs[k]].insts) |->
                   [id |-> <<bs[k], j>>, inst |-> F.blocks[bs[k]].insts[j]]]])

\* I.users(): the use list of an instruction, one entry per use, so a user
\* that takes the value in two operands is on it twice.
Users(F, id) ==
  LET bs == SetToSeq(DOMAIN F.blocks)
  IN  Concat([k \in 1..Len(bs) |->
        Concat([j \in 1..Len(F.blocks[bs[k]].insts) |->
          Concat([o \in 1..Len(F.blocks[bs[k]].insts[j].operands) |->
            IF F.blocks[bs[k]].insts[j].operands[o] = id
            THEN << <<bs[k], j>> >> ELSE <<>>])])])

\* L->contains(BB)
ContainsMutAny(F, l, b) == TRUE
Contains(F, l, b) == b \in Range(F.loops[l].blocks)

IsTerminator(inst) == inst.op \in {"br", "ret", "unreachable"}

\* BB->getTerminator(): the last instruction when it is a terminator.
Terminators(F, l) ==
  LET bs == F.loops[l].blocks
  IN  { F.blocks[b].insts[Len(F.blocks[b].insts)] :
          b \in {c \in Range(bs) :
                   /\ F.blocks[c].insts # <<>>
                   /\ IsTerminator(F.blocks[c].insts[Len(F.blocks[c].insts)])} }

\* L->getLoopDepth(): the number of loops on the parent chain.
RECURSIVE LoopDepth(_, _)
LoopDepth(F, l) ==
  IF F.loops[l].parentLoop = 0 THEN 1
  ELSE 1 + LoopDepth(F, F.loops[l].parentLoop)

\* int64_t trip_count = 0; set to getZExtValue() + 1 for a SCEVConstant.
TripCount(btc) ==
  IF btc.kind # "null"
  THEN IF btc.kind = "const"
       THEN Int64Of(U64AddOne(btc.value))
       ELSE Int64Of(U64Zero)
  ELSE Int64Of(U64Zero)

\* The locals of analyzeLoop once its loop over the blocks is done: is are
\* the instructions visited, preds and succs the two std::sets.
Locals(F, l, is, preds, succs) ==
  [ num_instr |-> Len(is),
    num_phis |-> Len(SelectSeq(is, LAMBDA x : x.inst.op = "phi")),
    num_calls |-> Len(SelectSeq(is, LAMBDA x : x.inst.op = "call")),
    num_preds |-> Cardinality(preds),
    num_succ |-> Cardinality(succs),
    ends_with_unreachable |-> \E t \in Terminators(F, l) : t.op = "unreachable",
    ends_with_return |-> \E t \in Terminators(F, l) : t.op = "ret",
    ends_with_cond_branch |-> \E x \in Range(is) : x.inst.op = "br" /\ x.inst.cond,
    ends_with_branch |-> \E x \in Range(is) : x.inst.op = "br",
    num_float_ops |-> Len(SelectSeq(is, LAMBDA x : x.inst.op \in {"fadd", "fsub", "fmul", "fdiv"})),
    nums_branchs |-> Len(SelectSeq(is, LAMBDA x : x.inst.op = "br")),
    num_operands |-> SumSeq([k \in 1..Len(is) |-> Len(is[k].inst.operands)]),
    num_memory_ops |-> Len(SelectSeq(is, LAMBDA x : x.inst.op \in {"load", "store"})),
    num_unique_predicates |-> Cardinality(preds),
    trip_count |-> TripCount(F.loops[l].btc),
    num_uses |-> SumSeq([k \in 1..Len(is) |->
                   Len(SelectSeq(Users(F, is[k].id), LAMBDA u : Contains(F, l, u[1])))]),
    num_blocks_in_lp |-> Len(F.loops[l].blocks),
    loop_depth |-> LoopDepth(F, l) ]

LoopFeatures(F, l) ==
  Locals(F, l, LoopInsts(F, l),
         UNION {Range(F.blocks[b].preds) : b \in Range(F.loops[l].blocks)},
         UNION {Range(F.blocks[b].succs) : b \in Range(F.loops[l].blocks)})

\* The header line initializeOutFile writes.
HeaderColumns ==
  << "CodeID", "Function", "LoopHeader", "num_instr", "num_phis", "num_calls",
     "num_preds", "num_succ", "ends_with_unreachable", "ends_with_return",
     "ends_with_cond_branch", "ends_with_branch", "num_float_ops",
     "nums_branchs", "num_operands", "num_memory_ops", "num_unique_predicates",
     "trip_count", "num_uses", "num_blocks_in_lp", "loop_depth" >>

\* The line analyzeLoop writes, field by field, from its locals v.
RowFieldsMutSwapped(id, F, l, v) ==
  << id, F.name, F.blocks[F.loops[l].header].name,
     v.num_instr, v.num_phis, v.num_calls, v.num_succ, v.num_preds,
     B2I(v.ends_with_unreachable), B2I(v.ends_with_return),
     B2I(v.ends_with_cond_branch), B2I(v.ends_with_branch),
     v.num_float_ops, v.nums_branchs, v.num_operands, v.num_memory_ops,
     v.num_unique_predicates, v.trip_count, v.num_uses,
     v.num_blocks_in_lp, v.loop_depth >>
RowFields(id, F, l, v) ==
  << id, F.name, F.blocks[F.loops[l].header].name,
     v.num_instr, v.num_phis, v.num_calls, v.num_preds, v.num_succ,
     B2I(v.ends_with_unreachable), B2I(v.ends_with_return),
     B2I(v.ends_with_cond_branch), B2I(v.ends_with_branch),
     v.num_float_ops, v.nums_branchs, v.num_operands, v.num_memory_ops,
     v.num_unique_predicates, v.trip_count, v.num_uses,
     v.num_blocks_in_lp, v.loop_depth >>

\* The sub-loops analyzeLoop recurses into.
SubLoopsMutFirstOnly(F, l) ==
  IF F.loops[l].subLoops = <<>> THEN <<>> ELSE <<F.loops[l].subLoops[1]>>
SubLoops(F, l) == F.loops[l].subLoops

\* analyzeLoop: the loop's own line, then the lines of its sub-loops. Each
\* line is kept with the function and loop it was written for.
RECURSIVE AnalyzeLoop(_, _, _)
AnalyzeLoop(F, l, id) ==
  << [fn |-> F.name, loop |-> l, fields |-> RowFields(id, F, l, LoopFeatures(F, l))] >>
  \o Concat([k \in 1..Len(SubLoops(F, l)) |-> AnalyzeLoop(F, SubLoops(F, l)[k], id)])

\* The body of run() after CurrentCodeID is set: every function that is no
\* declaration, every top-level loop of its LoopInfo.
AnalyzeModule(M, id) ==
  Concat([f \in 1..Len(M) |->
    IF M[f].isDeclaration THEN <<>>
    ELSE Concat([k \in 1..Len(M[f].top) |-> AnalyzeLoop(M[f], M[f].top[k], id)])])

\* ------------------------------------------------------- decimal text
\* operator<<(unsigned): the decimal digits, most significant first.
RECURSIVE FormatUnsigned(_)
FormatUnsigned(n) ==
  IF n < 10 THEN <<n>> ELSE FormatUnsigned(n \div 10) \o <<n % 10>>

\* operator>>(unsigned&): the digits read as a number; with no digit to read
\* the extraction fails and stores 0.
RECURSIVE ParseUnsigned(_)
ParseUnsigned(text) ==
  IF text = <<>> THEN 0
  ELSE 10 * ParseUnsigned(SubSeq(text, 1, Len(text) - 1)) + text[Len(text)]

\* ------------------------------------------------------------ processes
P1 == "p1"
P2 == "p2"
P3 == "p3"
Procs == {P1, P2, P3}

VARIABLES
  outOpenable,    \* environment: loop_features.csv can be opened for append
  outReadable,    \* environment: loop_features.csv can be opened for reading
  idWritable,     \* environment: code_id.txt can be opened for writing
  outFile,        \* loop_features.csv: its lines
  idFile,         \* code_id.txt: whether it exists, and its text
  pc,             \* where each process is
  initialized,    \* initializeOutFile's static bool, per process
  isOpen,         \* OutFile.is_open(), per process
  CodeIDCounter,  \* the static counter, per process
  idSet,          \* whether run()'s static CurrentCodeID has been initialized
  CurrentCodeID,  \* run()'s static local
  instances,      \* pass instances alive in each process
  runs,           \* run() calls made by each process
  lastRun,        \* history: the module of the latest run() and the lines it wrote to OutFile
  tags,           \* history: the CodeIDs on the lines each process appended to the file
  lastLoad,       \* history: what initializeCodeIDCounter last stored
  firstLoad,      \* history: lastLoad as it was when run() was first called
  incs,           \* history: how often CodeIDCounter++ was executed
  before          \* history: the processes that had exited when this one started

vars == << outOpenable, outReadable, idWritable, outFile, idFile, pc,
           initialized, isOpen, CodeIDCounter, idSet, CurrentCodeID, instances,
           runs, lastRun, tags, lastLoad, firstLoad, incs, before >>

\* A line of loop_features.csv: its fields and, for a loop's line, the
\* function and loop it was written for (fn and loop are history).
HeaderLine == [fn |-> "", loop |-> 0, fields |-> HeaderColumns]

NoRun == [unit |-> <<>>, rows |-> <<>>]

\* The side store a process may find: none, or the value an earlier run left.
InitialIdFiles ==
  { [exists |-> FALSE, text |-> <<>>],
    [exists |-> TRUE, text |-> FormatUnsigned(9)] }

\* Modules the processes are given: one without loops, one with a loop nest.
LifecycleUnits ==
  { MkUnit(<<>>, <<>>, "plain", SmallBTCs, 0),
    MkUnit(<<0, 1>>, <<>>, "mem", SmallBTCs, 0) }

\* The module of a process that runs once: one function with one loop.
OnceUnits == { MkUnit(<<0>>, <<>>, "plain", SmallBTCs, 0) }

Init ==
  /\ outOpenable \in BOOLEAN
  /\ outReadable \in BOOLEAN
  /\ idWritable \in BOOLEAN
  /\ outFile = <<>>
  /\ idFile \in InitialIdFiles
  /\ pc = [p \in Procs |-> "new"]
  /\ initialized = [p \in Procs |-> FALSE]
  /\ isOpen = [p \in Procs |-> FALSE]
  /\ CodeIDCounter = [p \in Procs |-> 0]
  /\ idSet = [p \in Procs |-> FALSE]
  /\ CurrentCodeID = [p \in Procs |-> 0]
  /\ instances = [p \in Procs |-> 0]
  /\ runs = [p \in Procs |-> 0]
  /\ lastRun = [p \in Procs |-> NoRun]
  /\ tags = [p \in Procs |-> {}]
  /\ lastLoad = [p \in Procs |-> 0]
  /\ firstLoad = [p \in Procs |-> 0]
  /\ incs = [p \in Procs |-> 0]
  /\ before = [p \in Procs |-> {}]

\* The plugin is loaded into a process: the statics have their initial values.
Start(p) ==
  /\ pc[p] = "new"
  /\ pc' = [pc EXCEPT ![p] = "ready"]
  /\ before' = [before EXCEPT ![p] = {q \in Procs : pc[q] = "exited"}]
  /\ UNCHANGED << outOpenable, outReadable, idWritable, outFile, idFile, initialized, isOpen,
                  CodeIDCounter, idSet, CurrentCodeID, instances, runs,
                  lastRun, tags, lastLoad, firstLoad, incs >>

\* initializeOutFile's test of the file it has just opened: peek() gives
\* eof for an empty file, and for a checkFile that could not be opened.
WriteHeader(readable, file) == ~readable \/ file = <<>>

\* LoopFeatureExtractor(), first half: initializeOutFile up to the peek.
CtorOpen(p) ==
  /\ pc[p] = "ready"
  /\ instances[p] < MaxInstances
  /\ IF initialized[p] \/ ~outOpenable
     THEN /\ pc' = [pc EXCEPT ![p] = "ctorId"]
          /\ UNCHANGED << isOpen, initialized >>
     ELSE /\ isOpen' = [isOpen EXCEPT ![p] = TRUE]
          /\ IF WriteHeader(outReadable, outFile)
             THEN /\ pc' = [pc EXCEPT ![p] = "ctorHdr"]
                  /\ UNCHANGED initialized
             ELSE /\ pc' = [pc EXCEPT ![p] = "ctorId"]
                  /\ initialized' = [initialized EXCEPT ![p] = TRUE]
  /\ UNCHANGED << outOpenable, idWritable, outFile, idFile, CodeIDCounter,
                  idSet, CurrentCodeID, instances, runs, lastRun, tags, lastLoad,
                  firstLoad, incs, before, outReadable >>

\* initializeOutFile, the header written and flushed.
CtorHeader(p) ==
  /\ pc[p] = "ctorHdr"
  /\ outFile' = Append(outFile, HeaderLine)
  /\ initialized' = [initialized EXCEPT ![p] = TRUE]
  /\ pc' = [pc EXCEPT ![p] = "ctorId"]
  /\ UNCHANGED << outOpenable, idWritable, idFile, isOpen, CodeIDCounter,
                  idSet, CurrentCodeID, instances, runs, lastRun, tags, lastLoad,
                  firstLoad, incs, before, outReadable >>

\* What initializeCodeIDCounter stores in CodeIDCounter.
LoadedCounter(file) ==
  IF file.exists THEN ParseUnsigned(file.text) ELSE 0

\* LoopFeatureExtractor(), second half: initializeCodeIDCounter.
CtorLoadID(p) ==
  /\ pc[p] = "ctorId"
  /\ CodeIDCounter' = [CodeIDCounter EXCEPT ![p] = LoadedCounter(idFile)]
  /\ lastLoad' = [lastLoad EXCEPT ![p] = LoadedCounter(idFile)]
  /\ instances' = [instances EXCEPT ![p] = @ + 1]
  /\ pc' = [pc EXCEPT ![p] = "ready"]
  /\ UNCHANGED << outOpenable, idWritable, outFile, idFile, initialized, isOpen,
                  idSet, CurrentCodeID, runs, lastRun, tags, firstLoad, incs,
                  before, outReadable >>

\* The implicit copy constructor, as addPass uses it: no static is touched.
Copy(p) ==
  /\ pc[p] = "ready"
  /\ instances[p] > 0
  /\ instances[p] < MaxInstances
  /\ instances' = [instances EXCEPT ![p] = @ + 1]
  /\ UNCHANGED << outOpenable, idWritable, outFile, idFile, pc, initialized,
                  isOpen, CodeIDCounter, idSet, CurrentCodeID, runs, lastRun,
                  tags, lastLoad, firstLoad, incs, before, outReadable >>

\* Whether this call of run() executes the initializer of its static local.
InitializesIDMutEveryCall(p) == TRUE
InitializesID(p) == ~idSet[p]

\* run(M, MAM)
Run(p, M) ==
  /\ pc[p] = "ready"
  /\ instances[p] > 0
  /\ runs[p] < MaxRuns
  /\ LET id == IF InitializesID(p) THEN CodeIDCounter[p] ELSE CurrentCodeID[p]
         rows == AnalyzeModule(M, id)
     IN  /\ CurrentCodeID' = [CurrentCodeID EXCEPT ![p] = id]
         /\ CodeIDCounter' = [CodeIDCounter EXCEPT ![p] =
                                IF InitializesID(p) THEN @ + 1 ELSE @]
         /\ incs' = [incs EXCEPT ![p] = IF InitializesID(p) THEN @ + 1 ELSE @]
         /\ outFile' = IF isOpen[p] THEN outFile \o rows ELSE outFile
         /\ tags' = [tags EXCEPT ![p] =
                       IF isOpen[p]
                       THEN @ \cup {r.fields[1] : r \in Range(rows)}
                       ELSE @]
         /\ lastRun' = [lastRun EXCEPT ![p] = [unit |-> M, rows |-> rows]]
  /\ idSet' = [idSet EXCEPT ![p] = TRUE]
  /\ firstLoad' = [firstLoad EXCEPT ![p] = IF runs[p] = 0 THEN lastLoad[p] ELSE @]
  /\ runs' = [runs EXCEPT ![p] = @ + 1]
  /\ UNCHANGED << outOpenable, idWritable, idFile, pc, initialized, isOpen,
                  instances, lastLoad, before, outReadable >>

\* ~LoopFeatureExtractor(), first half: saveCodeIDCounter opens code_id.txt,
\* which empties it; when it cannot, only the error is printed.
DtorOpen(p) ==
  /\ pc[p] = "ready"
  /\ instances[p] > 0
  /\ IF idWritable
     THEN /\ idFile' = [exists |-> TRUE, text |-> <<>>]
          /\ pc' = [pc EXCEPT ![p] = "dtorWrite"]
          /\ UNCHANGED instances
     ELSE /\ instances' = [instances EXCEPT ![p] = @ - 1]
          /\ UNCHANGED << idFile, pc >>
  /\ UNCHANGED << outOpenable, idWritable, outFile, initialized, isOpen,
                  CodeIDCounter, idSet, CurrentCodeID, runs, lastRun, tags, lastLoad,
                  firstLoad, incs, before, outReadable >>

\* ~LoopFeatureExtractor(), second half: the counter written, the file closed.
DtorWrite(p) ==
  /\ pc[p] = "dtorWrite"
  /\ idFile' = [exists |-> TRUE, text |-> FormatUnsigned(CodeIDCounter[p])]
  /\ instances' = [instances EXCEPT ![p] = @ - 1]
  /\ pc' = [pc EXCEPT ![p] = "ready"]
  /\ UNCHANGED << outOpenable, idWritable, outFile, initialized, isOpen,
                  CodeIDCounter, idSet, CurrentCodeID, runs, lastRun, tags, lastLoad,
                  firstLoad, incs, before, outReadable >>

\* The process ends once its pass instances are gone; OutFile is closed.
Exit(p) ==
  /\ pc[p] = "ready"
  /\ instances[p] = 0
  /\ pc' = [pc EXCEPT ![p] = "exited"]
  /\ isOpen' = [isOpen EXCEPT ![p] = FALSE]
  /\ UNCHANGED << outOpenable, idWritable, outFile, idFile, initialized,
                  CodeIDCounter, idSet, CurrentCodeID, instances, runs,
                  lastRun, tags, lastLoad, firstLoad, incs, before, outReadable >>

\* What a host can make a process do, in any order.
Driven(p) ==
  \/ Start(p)
  \/ CtorOpen(p)
  \/ CtorHeader(p)
  \/ CtorLoadID(p)
  \/ Copy(p)
  \/ \E M \in LifecycleUnits : Run(p, M)
  \/ DtorOpen(p)
  \/ DtorWrite(p)
  \/ Exit(p)

\* A process that builds one pipeline with one pass, runs it on one module
\* and tears it down.
Once(p) ==
  \/ Start(p)
  \/ (instances[p] = 0 /\ runs[p] = 0 /\ CtorOpen(p))
  \/ CtorHeader(p)
  \/ CtorLoadID(p)
  \/ (runs[p] = 0 /\ \E M \in OnceUnits : Run(p, M))
  \/ DtorOpen(p)
  \/ DtorWrite(p)
  \/ Exit(p)

\* Processes that may overlap in time, each a single pipeline run.
Next == \E p \in Procs : Once(p)

Spec == Init /\ [][Next]_vars

\* One process alone, driven in any order.
NextOne == Driven(P1)

SpecOne == Init /\ [][NextOne]_vars

\* Two processes driven in any order, the second started after the first
\* has exited.
NextSeq ==
  \/ Driven(P1)
  \/ (pc[P1] = "exited" /\ Driven(P2))

SpecSeq == Init /\ [][NextSeq]_vars

\* One process, one pass instance, one module out of all the generated ones.
NextAnalysis ==
  \/ Start(P1)
  \/ (instances[P1] = 0 /\ runs[P1] = 0 /\ CtorOpen(P1))
  \/ CtorHeader(P1)
  \/ CtorLoadID(P1)
  \/ (runs[P1] = 0 /\ \E M \in AllUnits : Run(P1, M))
  \/ DtorOpen(P1)
  \/ DtorWrite(P1)
  \/ Exit(P1)

InitAnalysis == Init /\ outReadable /\ idWritable /\ ~idFile.exists

SpecAnalysis == InitAnalysis /\ [][NextAnalysis]_vars

\* ------------------------------------------------------------ properties
IsHeader(line) == line.loop = 0
IsRow(line) == line.loop > 0

HeaderCount == Cardinality({k \in 1..Len(outFile) : IsHeader(outFile[k])})

\* What code_id.txt holds, read as initializeCodeIDCounter would read it.
Persisted == LoadedCounter(idFile)

InFile(row) ==
  \E k \in 1..Len(outFile) :
    /\ outFile[k].loop = row.loop
    /\ outFile[k].fn = row.fn
    /\ outFile[k].fields = row.fields

FnByName(M, name) == M[CHOOSE f \in 1..Len(M) : M[f].name = name]

Field(row, name) ==
  row.fields[CHOOSE i \in 1..Len(HeaderColumns) : HeaderColumns[i] = name]

\* C1: within one process the run identifier is fixed by the first run() to
\* the counter value last loaded from the side store, the counter is
\* incremented exactly once, at that call, and every line the process
\* appends to the dataset, in whatever later run(), carries that identifier.
C1_RunIdFixedOnFirstRun ==
  \A p \in Procs :
    /\ runs[p] = 0 => (~idSet[p] /\ incs[p] = 0 /\ tags[p] = {})
    /\ runs[p] > 0 => /\ idSet[p]
                      /\ CurrentCodeID[p] = firstLoad[p]
                      /\ incs[p] = 1
                      /\ tags[p] \subseteq {firstLoad[p]}

\* A process on its second module, all its lines tagged with the 9 it loaded.
C1_Witness ==
  /\ runs[P1] >= 2
  /\ firstLoad[P1] = 9
  /\ tags[P1] = {9}
  /\ Cardinality({k \in 1..Len(outFile) : IsRow(outFile[k])}) >= 4

\* C2: two processes run one after the other on the same files, each
\* processing at least one module: the second run identifier is the first
\* plus 1 and the dataset holds the lines of both runs. Stated for files
\* that can be opened, so that only the program decides it.
C2_SecondRunIsFirstPlusOne ==
  ( /\ idWritable /\ outOpenable
    /\ pc[P1] = "exited" /\ runs[P1] > 0 /\ runs[P2] > 0
    /\ P1 \in before[P2] )
  => /\ CurrentCodeID[P2] = CurrentCodeID[P1] + 1
     /\ \A r \in Range(lastRun[P1].rows) : InFile(r)
     /\ \A r \in Range(lastRun[P2].rows) : InFile(r)

\* C3: any two processes that each ran on a module tag their lines with
\* distinct run identifiers, also when they overlap in time. Stated for a
\* side store that can be written.
C3_RunIdsDistinct ==
  idWritable =>
    \A p, q \in Procs :
      (p # q /\ runs[p] > 0 /\ runs[q] > 0) => CurrentCodeID[p] # CurrentCodeID[q]

\* C4: from an absent or empty dataset file, after any openings by
\* processes one after another or overlapping, the file holds the header
\* exactly once, as its first line: an opening that finds the file not
\* empty writes none.
C4_HeaderOnceAndFirst ==
  /\ (\E p \in Procs : initialized[p]) => outFile # <<>>
  /\ outFile # <<>> => (IsHeader(outFile[1]) /\ HeaderCount = 1)

\* The 64-bit count c and the printed trip_count tc: tc is c + 1.
IsSuccessor(tc, c) ==
  /\ ~tc.neg
  /\ LimbsInc(c)[1] = 0
  /\ tc.mag = LimbsInc(c)[2]

TripCountAsClaimed(row, btc) ==
  /\ btc.kind = "const" => IsSuccessor(Field(row, "trip_count"), btc.value)
  /\ btc.kind # "const" => Field(row, "trip_count") = [neg |-> FALSE, mag |-> U64Zero]
  /\ ~Field(row, "trip_count").neg
  /\ Field(row, "trip_count").mag = U64Zero => btc.kind # "const"

\* C5: trip_count is c + 1 for every constant backedge-taken count c of the
\* 64-bit unsigned range and 0 otherwise; it is never negative, and 0 only
\* when the count is no constant.
C5_TripCountIsCountPlusOne ==
  \A p \in Procs :
    \A r \in Range(lastRun[p].rows) :
      TripCountAsClaimed(r, FnByName(lastRun[p].unit, r.fn).loops[r.loop].btc)

LoopCount(F) == IF F.isDeclaration THEN 0 ELSE Cardinality(DOMAIN F.loops)

LinesFor(rows, name, l) ==
  Cardinality({k \in 1..Len(rows) : rows[k].fn = name /\ rows[k].loop = l})

OneLinePerLoop(M, rows) ==
  /\ Len(rows) = SumSeq([f \in 1..Len(M) |-> LoopCount(M[f])])
  /\ \A f \in 1..Len(M) :
       IF M[f].isDeclaration \/ M[f].top = <<>>
       THEN \A k \in 1..Len(rows) : rows[k].fn # M[f].name
       ELSE \A l \in DOMAIN M[f].loops : LinesFor(rows, M[f].name, l) = 1

\* C6: run() on a module writes one line for every loop of every function
\* with a body, nested loops at any depth included, each exactly once, and
\* none for a declaration or a function without loops; with the dataset
\* open these are the lines the file gains. (run() is one step here: that
\* it ends is the recursion over a finite forest being evaluated.)
C6_OneLinePerLoop ==
  \A p \in Procs :
    runs[p] > 0 =>
      /\ OneLinePerLoop(lastRun[p].unit, lastRun[p].rows)
      /\ SelectSeq(outFile, IsRow) = (IF outOpenable THEN lastRun[p].rows ELSE <<>>)

\* A module with a loop nest three deep and a function without loops.
C6_Witness ==
  /\ runs[P1] > 0
  /\ outOpenable
  /\ lastRun[P1].unit[3].top = <<>>
  /\ \E r \in Range(lastRun[P1].rows) : Field(r, "loop_depth") = 3
  /\ Len(outFile) = 4

\* C7: when the dataset file cannot be opened the run is over: no module is
\* analyzed, no line is written and no run identifier is consumed.
C7_OpenFailureIsFatal ==
  ~outOpenable =>
    \A p \in Procs : runs[p] = 0 /\ incs[p] = 0 /\ tags[p] = {}

BoolColumns ==
  {"ends_with_unreachable", "ends_with_return", "ends_with_cond_branch",
   "ends_with_branch"}

\* The quantity a column name stands for, from analyzeLoop's locals v.
Quantity(name, id, F, l, v) ==
  CASE name = "CodeID" -> id
    [] name = "Function" -> F.name
    [] name = "LoopHeader" -> F.blocks[F.loops[l].header].name
    [] name \in BoolColumns -> B2I(v[name])
    [] OTHER -> v[name]

LineMatchesHeader(row, id, F, v) ==
  /\ Len(row.fields) = 21
  /\ Len(HeaderColumns) = 21
  /\ \A i \in 1..21 : row.fields[i] = Quantity(HeaderColumns[i], id, F, row.loop, v)
  /\ Field(row, "num_preds") = Field(row, "num_unique_predicates")
  /\ \A c \in BoolColumns : Field(row, c) \in {0, 1}

\* C8: every line has 21 fields, the i-th being the quantity the i-th
\* header column names; num_preds equals num_unique_predicates and the four
\* boolean fields are 0 or 1.
C8_LineMatchesHeader ==
  \A p \in Procs :
    \A r \in Range(lastRun[p].rows) :
      \A F \in {FnByName(lastRun[p].unit, r.fn)} :
        \A v \in {LoopFeatures(F, r.loop)} :
          LineMatchesHeader(r, CurrentCodeID[p], F, v)

\* A line of an inner loop with a call, ten iterations and more successor
\* blocks than predecessor blocks.
C8_Witness ==
  \E r \in Range(lastRun[P1].rows) :
    /\ Field(r, "num_calls") = 1
    /\ Field(r, "ends_with_cond_branch") = 1
    /\ Field(r, "trip_count") = [neg |-> FALSE, mag |-> U64Of(10)]
    /\ Field(r, "loop_depth") = 2
    /\ Field(r, "num_succ") > Field(r, "num_preds")

InstIdsIn(F, bs) ==
  UNION {{<<b, j>> : j \in 1..Len(F.blocks[b].insts)} : b \in bs}

OperandsOf(F, id) == F.blocks[id[1]].insts[id[2]].operands

\* The (instruction, user) pairs inside a set of instructions.
UsePairs(F, ids) ==
  {du \in ids \X ids :
     \E k \in 1..Len(OperandsOf(F, du[2])) : OperandsOf(F, du[2])[k] = du[1]}

\* The uses inside a set of instructions: the operands of its members that
\* are members.
UseSlots(F, ids) ==
  UNION {{<<u, k>> : k \in {k \in 1..Len(OperandsOf(F, u)) : OperandsOf(F, u)[k] \in ids}} :
           u \in ids}

MemberIds(F, l) == InstIdsIn(F, Range(F.loops[l].blocks))

\* C9 as claimed: num_uses is the number of (instruction, user) pairs with
\* both in the loop, a pair counted once however many operands of the user
\* take the instruction.
C9_NumUsesCountsPairs ==
  \A p \in Procs :
    \A r \in Range(lastRun[p].rows) :
      Field(r, "num_uses") =
        Cardinality(UsePairs(FnByName(lastRun[p].unit, r.fn),
                             MemberIds(FnByName(lastRun[p].unit, r.fn), r.loop)))

\* C9 as amended: num_uses is the number of uses, inside the loop, of
\* instructions of the loop: a user counts once for every operand that takes
\* the instruction, and a user outside the loop does not count.
C9_NumUsesCountsUses ==
  \A p \in Procs :
    \A r \in Range(lastRun[p].rows) :
      Field(r, "num_uses") =
        Cardinality(UseSlots(FnByName(lastRun[p].unit, r.fn),
                             MemberIds(FnByName(lastRun[p].unit, r.fn), r.loop)))

HasDoubleUse(F, ids) == Cardinality(UseSlots(F, ids)) > Cardinality(UsePairs(F, ids))

HasOutsideUser(F, ids) ==
  \E u \in InstIdsIn(F, DOMAIN F.blocks) \ ids :
    \E k \in 1..Len(OperandsOf(F, u)) : OperandsOf(F, u)[k] \in ids

\* A loop with an instruction used twice by one user and one used outside.
C9_Witness ==
  \E r \in Range(lastRun[P1].rows) :
    /\ HasDoubleUse(FnByName(lastRun[P1].unit, r.fn),
                    MemberIds(FnByName(lastRun[P1].unit, r.fn), r.loop))
    /\ HasOutsideUser(FnByName(lastRun[P1].unit, r.fn),
                      MemberIds(FnByName(lastRun[P1].unit, r.fn), r.loop))
    /\ Field(r, "num_uses") > 0

\* C10: in a process that called run(), once its last pass instance is
\* destroyed the side store holds the run identifier plus 1, whatever the
\* order of constructions, copies, destructions and run() calls. Stated for
\* a side store that can be written.
C10_PersistedIsRunIdPlusOne ==
  \A p \in Procs :
    (idWritable /\ runs[p] > 0 /\ instances[p] = 0 /\ pc[p] \in {"ready", "exited"})
      => (idFile.exists /\ Persisted = CurrentCodeID[p] + 1)

====
